---- MODULE Spec2Model ----
(***************************************************************************)
(* Model of the serverless handlers of the Telegram mini-app backend.      *)
(*                                                                         *)
(* The repository holds several revisions of one HTTP handler over         *)
(* different Supabase table layouts.  A behaviour of this model is the     *)
(* life of ONE deployed revision (variable rev, fixed by Init):            *)
(*   "gifts"  src/unnamed/part_000 lines 246-376, single table gifts       *)
(*   "users"  src/unnamed/part_001, tables users + ad_views                *)
(*   "tlog"   src/api/index.js lines 282-625, wide row telegram.log        *)
(*   "tlog2"  src/unnamed/part_002, wide row telegram.log                  *)
(*                                                                         *)
(* Time is counted in whole hours.  The store is the Supabase database;    *)
(* every storage call either answers OK or answers non-OK with an error    *)
(* body and no effect (variable reliable: the store never answers non-OK).*)
(***************************************************************************)
EXTENDS Integers, Sequences, FiniteSets, TLC

\* ------------------------------------------------------------------ bounds
MaxTicks == 2          \* how many times the clock advances
MaxReq == 2            \* how many requests are served in one behaviour

\* ------------------------------------------------------- program constants
Cooldown == 48         \* hours between two claims of one gift
MinInvites == 10       \* active invites needed to claim

Revs == {"gifts", "users", "tlog", "tlog2"}
Users == {"u1"}
GiftKinds == {"bear", "heart"}
TaskNames == {"bear", "heart"}
Referrers == {"", "u2"}            \* refal_by of a register request ("" = absent)
TickSteps == {1, 47}               \* hours the clock may jump
Slots == {1, 2}                    \* requests of the gifts handler in flight
\* the task a request names, "" for none
Tasks == TaskNames \cup {""}

VARIABLES
  rev,          \* the deployed revision
  botToken,     \* process.env.BOT_TOKEN ("" = not configured)
  now,          \* clock, in hours
  ticks,        \* clock advances so far
  nreq,         \* requests started so far
  userRow,      \* user -> <<>> or <<[created_at, ref]>>: the registration record
  ads,          \* user -> gift -> ad-view counter
  gifts,        \* user -> gift -> granted-gift counter
  lastClaim,    \* user -> gift -> <<>> or <<t>>: timestamp of the last claim
  taskLevel,    \* user -> bear_task_level
  taskRows,     \* user -> task -> task_claim counter
  invites,      \* user -> active invites
  sinceClaim,   \* history: user -> gift -> ad views recorded since the last grant
  taskGrants,   \* history: user -> task -> task grants written so far
  inflight,     \* slot -> the gifts handler's claim request being served
  reliable,     \* the store answers every call OK
  resp          \* the response the last step sent (NoResp when it sent none), with
                \* what the request saw and did

vars == <<rev, botToken, reliable, now, ticks, nreq, userRow, ads, gifts, lastClaim,
          taskLevel, taskRows, invites, sinceClaim, taskGrants, inflight, resp>>

store == <<userRow, ads, gifts, lastClaim, taskLevel, taskRows, invites>>
config == <<rev, botToken, reliable>>

\* how one storage call can answer: OK, or non-OK (res.ok false / error set)
Outcomes == IF reliable THEN {"ok"} ELSE {"ok", "fail"}

\* ------------------------------------------------------------- initData
\* initData is a URL-encoded list of key=value pairs, one of them `hash`.
\* HMAC-SHA256 is abstract: the digest of message msg under key is the pair
\* [key, msg]; two digests are equal iff both the key and the message are.
\* A hex string is the digest it encodes together with the digits the
\* encoding gives the bytes ProbeBytes, one list of digits for each byte; the
\* empty string has no digits.
BotTokenValue == "tokA"
OtherToken == "tokB"
Pair(k, v) == [k |-> k, v |-> v]
HmacSha256(key, msg) == [key |-> key, msg |-> msg]

ProbeBytes == <<0, 10, 171, 255>>
HexDigits == <<"0", "1", "2", "3", "4", "5", "6", "7", "8", "9",
               "a", "b", "c", "d", "e", "f">>
HexString(digest, digits) == [digest |-> digest, digits |-> digits]

\* .digest('hex') of Node: two lowercase digits for every byte
digestHex(digest) ==
  HexString(digest, [i \in 1..Len(ProbeBytes) |->
                       <<HexDigits[(ProbeBytes[i] \div 16) + 1],
                         HexDigits[(ProbeBytes[i] % 16) + 1]>>])

\* b.toString(16)
toString16(b) ==
  IF b < 16 THEN <<HexDigits[b + 1]>>
  ELSE <<HexDigits[(b \div 16) + 1], HexDigits[(b % 16) + 1]>>
\* s.padStart(2, '0')
padStart2(s) == IF Len(s) < 2 THEN <<"0">> \o s ELSE s
\* toHex of the Web Crypto branch
toHex(digest) ==
  HexString(digest, [i \in 1..Len(ProbeBytes) |-> padStart2(toString16(ProbeBytes[i]))])

\* the hash Telegram puts on a payload: the hex digest of the check-string msg
\* under the secret derived from the bot token
HmacHex(token, msg) == digestHex(HmacSha256(HmacSha256("WebAppData", token), msg))

\* a[0].localeCompare(b[0]) on the keys that occur
KeyRank(k) == CASE k = "auth_date" -> 1 [] k = "query_id" -> 2 [] OTHER -> 3

\* entries left in the order of the string
KeepOrder(s) == s

\* Array.prototype.sort with that comparator (stable): insertion sort
RECURSIVE InsertSorted(_, _)
InsertSorted(p, s) ==
  IF s = <<>> THEN <<p>>
  ELSE IF KeyRank(p.k) < KeyRank(Head(s).k) THEN <<p>> \o s
  ELSE <<Head(s)>> \o InsertSorted(p, Tail(s))

RECURSIVE SortByKey(_)
SortByKey(s) ==
  IF s = <<>> THEN <<>>
  ELSE InsertSorted(s[Len(s)], SortByKey(SubSeq(s, 1, Len(s) - 1)))

\* the parsed initData: its non-hash pairs in order, and its hash values in order
InitData(fields, hash) == [fields |-> fields, hash |-> hash]
IsEmptyInitData(d) == d.fields = <<>> /\ d.hash = <<>>

\* the string '' as a hash value
EmptyString == HexString(HmacSha256(HmacSha256("", ""), <<>>), <<>>)

\* where the handler runs: Node (require('crypto') works), a worker with Web
\* Crypto only, or neither
CryptoEnvs == {"node", "web", "none"}

\* the synchronous verifier (index.js 17-37, part_002 15-36); data.get('hash')
\* is null for a payload without hash, and no digest is === null
verifySync(initData, token) ==
  IF IsEmptyInitData(initData) THEN FALSE
  ELSE LET hash == initData.hash
           params == SortByKey(initData.fields)
           secret == HmacSha256("WebAppData", token)
           calculatedHash == digestHex(HmacSha256(secret, params))
       IN  hash # <<>> /\ calculatedHash = Head(hash)

\* the asynchronous verifier (index.js 282-340) where the crypto is env
verifyAsync(initData, token, env) ==
  IF IsEmptyInitData(initData) \/ token = "" THEN FALSE
  ELSE IF initData.hash = <<>> \/ Head(initData.hash) = EmptyString THEN FALSE
  ELSE LET hash == Head(initData.hash)
           dataCheckString == SortByKey(initData.fields)
       IN  CASE env = "node" ->
                  LET secret == HmacSha256("WebAppData", token)
                      calculatedHash == digestHex(HmacSha256(secret, dataCheckString))
                  IN  calculatedHash = hash
             [] env = "web" ->
                  LET secretBytes == HmacSha256("WebAppData", token)
                      dataHmacBytes == HmacSha256(secretBytes, dataCheckString)
                      calculatedHex == toHex(dataHmacBytes)
                  IN  calculatedHex = hash
             [] OTHER -> FALSE

\* the verifier as the handlers of the model call it, deployed on Node
verifyTelegramInitData(initData, token) == verifyAsync(initData, token, "node")

TheFields == <<Pair("user", "u1"), Pair("auth_date", "t0")>>
MissingInitData == InitData(<<>>, <<>>)
GoodInitData == InitData(TheFields, <<HmacHex(BotTokenValue, SortByKey(TheFields))>>)
ForgedInitData == InitData(TheFields, <<HmacHex(OtherToken, SortByKey(TheFields))>>)
InitDatas == {MissingInitData, GoodInitData, ForgedInitData}

\* whether the payload was signed with the genuine bot token
Genuine(initData) == verifyTelegramInitData(initData, BotTokenValue)

\* ------------------------------------------------------------ thresholds
\* { bear: 200, heart: 250, box: 350, rose: 350 }[gift] || 200
required(gift) ==
  CASE gift = "bear" -> 200
    [] gift = "heart" -> 250
    [] gift = "box" -> 350
    [] gift = "rose" -> 350
    [] OTHER -> 200

\* Number(giftId) for the ids that occur; 0 stands for NaN
NumberOf(giftId) ==
  CASE giftId = "1" -> 1 [] giftId = "2" -> 2 [] giftId = "3" -> 3 [] OTHER -> 0

\* giftReqViewsMap = { 1: 200, 2: 250, 3: 350 }, default 200
giftReqViews(giftId) ==
  CASE NumberOf(giftId) = 1 -> 200
    [] NumberOf(giftId) = 2 -> 250
    [] NumberOf(giftId) = 3 -> 350
    [] OTHER -> 200

\* ------------------------------------------------------------ responses
\* The last response, and beside status and message what the request was,
\* what it read, and the store around its writes (history, for the properties).
NoResp ==
  [op |-> "none", u |-> "", g |-> "", status |-> 0, msg |-> "",
   genuine |-> FALSE,        \* the request's initData verifies against the bot token
   verified |-> "skipped",   \* what the handler's verification said: pass, fail, skipped
   granted |-> FALSE,        \* a grant was written durably
   writesOk |-> TRUE,        \* every storage write issued for the request succeeded
   reads |-> <<>>,           \* the storage reads issued, in order
   gotViews |-> 0, gotActive |-> 0,       \* what the reads returned
   seenAds |-> 0, seenActive |-> 0,       \* the stored values at those reads
   at |-> 0, gotLast |-> <<>>, seenLast |-> <<>>,   \* the same for the read of the
                             \* last claim, in the response of the step that made it
   gotCooling |-> FALSE,     \* the last claim as returned was younger than 48 h
   seenCooling |-> FALSE,    \* the last claim as stored was younger than 48 h
   preAds |-> 0, postAds |-> 0, preGifts |-> 0, postGifts |-> 0, postLast |-> <<>>,
   prevGrant |-> <<>>,       \* the last-claim timestamp the grant's write replaced
   need |-> 0,               \* the number the message carries
   preRow |-> <<>>, postRow |-> <<>>,
   newViews |-> 0,           \* ad views recorded since the previous grant
   priorTasks |-> 0,         \* grants of this (user, task) before this request
   preTask |-> <<>>, postTask |-> <<>>]   \* the reward counters before and after

Idle == [pc |-> "idle", u |-> "", g |-> "", reads |-> <<>>,
         gotCooling |-> FALSE, seenCooling |-> FALSE,
         gotViews |-> 0, gotActive |-> 0, seenAds |-> 0, seenActive |-> 0]

\* a claim younger than the cooldown window, for `last` = <<>> or <<t>>
Younger(last, t) == last # <<>> /\ t - last[1] < 48

\* ----------------------------------------------------------------- Init
\* A deployed revision with a store some earlier traffic has left: the user
\* has each gift's ad-view counter one short of the threshold or at it, and 9
\* or 10 active invites; nobody has claimed yet.
Init ==
  /\ rev \in Revs
  /\ reliable \in BOOLEAN
  /\ botToken \in (IF rev \in {"tlog", "tlog2"} THEN {"", BotTokenValue} ELSE {""})
  /\ now = 0 /\ ticks = 0 /\ nreq = 0
  /\ userRow \in [Users -> {<<>>, <<[created_at |-> 0, ref |-> ""]>>}]
  /\ \E short \in {0, 1} : ads = [u \in Users |-> [g \in GiftKinds |-> required(g) - short]]
  /\ gifts = [u \in Users |-> [g \in GiftKinds |-> 0]]
  /\ lastClaim = [u \in Users |-> [g \in GiftKinds |-> <<>>]]
  /\ taskLevel = [u \in Users |-> 0]
  /\ taskRows = [u \in Users |-> [t \in TaskNames |-> 0]]
  /\ invites \in [Users -> {MinInvites - 1, MinInvites}]
  /\ sinceClaim = [u \in Users |-> [g \in GiftKinds |-> 0]]
  /\ taskGrants = [u \in Users |-> [t \in Tasks |-> 0]]
  /\ inflight = [s \in Slots |-> Idle]
  /\ resp = NoResp

Tick ==
  /\ ticks < MaxTicks
  /\ \E d \in TickSteps : now' = now + d
  /\ ticks' = ticks + 1
  /\ resp' = NoResp
  /\ UNCHANGED <<config, nreq, store, sinceClaim, taskGrants, inflight>>

\* ------------------------------------------------ the store's procedures
\* everything a task claim may raise
Rewards(u) == <<taskLevel[u], taskRows[u], gifts[u]>>

\* rpc upsert_gift_action(p_user_id, p_action, p_gift, p_inc = 1): the row of
\* (user, action, gift) gets views + 1 and a fresh updated_at.
Bump(counter, u, g) == [counter EXCEPT ![u][g] = @ + 1]
Stamp(stamps, u, g, t) == [stamps EXCEPT ![u][g] = <<t>>]

\* ============================ the gifts-table handler (src/unnamed/part_000)

\* a cooldown that still holds at exactly 48 hours
CooldownActiveInclusive(last, t) == last # <<>> /\ t - last[1] <= Cooldown

\* diffHours < 48, for the newest claim row the read returned
CooldownActive(last, t) == last # <<>> /\ t - last[1] < Cooldown

\* a views check that also turns away a count exactly at the threshold
TooFewViewsAtThreshold(views, gift) == views <= required(gift)

\* views < required
TooFewViews(views, gift) == views < required(gift)

\* an invite check that lets 9 active invites through
TooFewInvitesBelowNine(active) == active = 0 \/ active < MinInvites - 1

\* !stats?.[0]?.active || stats[0].active < 10
TooFewInvites(active) == active = 0 \/ active < MinInvites

ClaimResp(r) ==
  [NoResp EXCEPT !.op = "claim", !.u = r.u, !.g = r.g, !.reads = r.reads,
                 !.gotCooling = r.gotCooling, !.seenCooling = r.seenCooling,
                 !.gotViews = r.gotViews, !.gotActive = r.gotActive,
                 !.seenAds = r.seenAds, !.seenActive = r.seenActive]

Reject(r, status, msg) == [ClaimResp(r) EXCEPT !.status = status, !.msg = msg]

\* case 'claim', up to the cooldown check: the gift check and the read of the
\* newest claim row of (user, gift)
GiftsClaimBegin(s, u, g) ==
  /\ rev = "gifts" /\ nreq < MaxReq
  /\ inflight[s].pc = "idle"
  /\ \A s2 \in Slots : s2 < s => inflight[s2].pc # "idle"
  /\ nreq' = nreq + 1
  /\ IF g = ""
     THEN /\ resp' = [NoResp EXCEPT !.op = "claim", !.u = u, !.status = 400,
                                    !.msg = "Gift required"]
          /\ UNCHANGED inflight
     ELSE \E o \in Outcomes :
            LET last == IF o = "ok" THEN lastClaim[u][g] ELSE <<>>
                r == [Idle EXCEPT !.u = u, !.g = g, !.reads = <<"last">>,
                                  !.gotCooling = Younger(last, now),
                                  !.seenCooling = Younger(lastClaim[u][g], now)]
            IN  /\ IF CooldownActive(last, now)
                   THEN /\ resp' = [Reject(r, 400, "Wait 48h between claims") EXCEPT
                                      !.at = now, !.gotLast = last,
                                      !.seenLast = lastClaim[u][g]]
                        /\ UNCHANGED inflight
                   ELSE /\ inflight' = [inflight EXCEPT
                                          ![s] = [r EXCEPT !.pc = "readViews"]]
                        /\ resp' = NoResp
  /\ UNCHANGED <<config, now, ticks, store, sinceClaim, taskGrants>>

\* the read of the ad-view count and the check against the gift's threshold
GiftsClaimReadViews(s) ==
  /\ inflight[s].pc = "readViews"
  /\ \E o \in Outcomes :
       LET q == inflight[s]
           views == IF o = "ok" THEN ads[q.u][q.g] ELSE 0
           r == [q EXCEPT !.reads = Append(@, "views"), !.gotViews = views,
                          !.seenAds = ads[q.u][q.g]]
       IN  /\ IF TooFewViews(views, q.g)
              THEN /\ resp' = [Reject(r, 400, "Need ad views") EXCEPT
                                 !.need = required(q.g)]
                   /\ inflight' = [inflight EXCEPT ![s] = Idle]
              ELSE /\ inflight' = [inflight EXCEPT ![s] = [r EXCEPT !.pc = "readStats"]]
                   /\ resp' = NoResp
  /\ UNCHANGED <<config, now, ticks, nreq, store, sinceClaim, taskGrants>>

\* rpc get_user_invite_stats and the check of the active invites
GiftsClaimReadStats(s) ==
  /\ inflight[s].pc = "readStats"
  /\ \E o \in Outcomes :
       LET q == inflight[s]
           active == IF o = "ok" THEN invites[q.u] ELSE 0
           r == [q EXCEPT !.reads = Append(@, "stats"), !.gotActive = active,
                          !.seenActive = invites[q.u]]
       IN  /\ IF TooFewInvites(active)
              THEN /\ resp' = Reject(r, 400, "Need 10 active invites")
                   /\ inflight' = [inflight EXCEPT ![s] = Idle]
              ELSE /\ inflight' = [inflight EXCEPT ![s] = [r EXCEPT !.pc = "write"]]
                   /\ resp' = NoResp
  /\ UNCHANGED <<config, now, ticks, nreq, store, sinceClaim, taskGrants>>

\* rpc upsert_gift_action('claim'), whose result is not looked at, and the answer
GiftsClaimWrite(s) ==
  /\ inflight[s].pc = "write"
  /\ \E o \in Outcomes :
       LET q == inflight[s]
           done == o = "ok"
       IN  /\ gifts' = IF done THEN Bump(gifts, q.u, q.g) ELSE gifts
           /\ lastClaim' = IF done THEN Stamp(lastClaim, q.u, q.g, now) ELSE lastClaim
           /\ sinceClaim' = IF done THEN [sinceClaim EXCEPT ![q.u][q.g] = 0] ELSE sinceClaim
           /\ resp' = [ClaimResp(q) EXCEPT
                         !.status = 200, !.msg = "Claimed", !.at = now,
                         !.granted = done, !.writesOk = done,
                         !.preAds = ads[q.u][q.g], !.postAds = ads[q.u][q.g],
                         !.preGifts = gifts[q.u][q.g], !.postGifts = gifts'[q.u][q.g],
                         !.prevGrant = lastClaim[q.u][q.g],
                         !.postLast = lastClaim'[q.u][q.g],
                         !.newViews = sinceClaim[q.u][q.g]]
  /\ inflight' = [inflight EXCEPT ![s] = Idle]
  /\ UNCHANGED <<config, now, ticks, nreq, userRow, ads, taskLevel, taskRows, invites,
                 taskGrants>>

GiftsClaim ==
  \/ \E s \in Slots, u \in Users, g \in GiftKinds \cup {""} : GiftsClaimBegin(s, u, g)
  \/ \E s \in Slots : GiftsClaimReadViews(s)
  \/ \E s \in Slots : GiftsClaimReadStats(s)
  \/ \E s \in Slots : GiftsClaimWrite(s)

\* rpc verify_telegram_data(init_data): the database checks the payload's
\* signature against the bot token it holds
VerifyTelegramData(initData) == verifyTelegramInitData(initData, BotTokenValue)

\* upsert('gifts', {user_id, ..., refal_by: refal_by || 0, action: 'register',
\* created_at: now}) with resolution=merge-duplicates
RegisterRow(t, refal) == <<[created_at |-> t, ref |-> refal]>>

\* case 'register'
GiftsRegister(u, initData, refal) ==
  /\ rev = "gifts" /\ nreq < MaxReq
  /\ nreq' = nreq + 1
  /\ LET base == [NoResp EXCEPT !.op = "register", !.u = u, !.at = now,
                                !.genuine = Genuine(initData),
                                !.preRow = userRow[u], !.postRow = userRow[u]]
     IN
     IF IsEmptyInitData(initData)
     THEN /\ resp' = [base EXCEPT !.status = 401, !.msg = "Missing initData",
                                  !.verified = "fail"]
          /\ UNCHANGED userRow
     ELSE \E o1 \in Outcomes :
            \* a non-OK answer carries an error object, which is truthy
            LET valid == IF o1 = "ok" THEN VerifyTelegramData(initData) ELSE TRUE
            IN  IF ~valid
                THEN /\ resp' = [base EXCEPT !.status = 401, !.msg = "Invalid initData",
                                             !.verified = "fail"]
                     /\ UNCHANGED userRow
                ELSE \E o2 \in Outcomes :
                       /\ userRow' = IF o2 = "ok"
                                     THEN [userRow EXCEPT ![u] = RegisterRow(now, refal)]
                                     ELSE userRow
                       /\ resp' = [base EXCEPT !.status = 200, !.msg = "User registered",
                                               !.verified = "pass",
                                               !.writesOk = (o2 = "ok"),
                                               !.postRow = userRow'[u]]
  /\ UNCHANGED <<config, now, ticks, ads, gifts, lastClaim, taskLevel, taskRows,
                 invites, sinceClaim, taskGrants, inflight>>

\* case 'watch-ad': rpc upsert_gift_action('ad_view'), result not looked at
GiftsWatchAd(u, g, initData) ==
  /\ rev = "gifts" /\ nreq < MaxReq
  /\ nreq' = nreq + 1
  /\ LET base == [NoResp EXCEPT !.op = "watch-ad", !.u = u, !.g = g, !.at = now,
                                !.genuine = Genuine(initData)]
     IN
     IF g = ""
     THEN /\ resp' = [base EXCEPT !.status = 400, !.msg = "Gift required"]
          /\ UNCHANGED <<ads, sinceClaim>>
     ELSE \E o \in Outcomes :
            /\ ads' = IF o = "ok" THEN Bump(ads, u, g) ELSE ads
            /\ sinceClaim' = IF o = "ok" THEN Bump(sinceClaim, u, g) ELSE sinceClaim
            /\ resp' = [base EXCEPT !.status = 200, !.msg = "Ad view recorded",
                                    !.writesOk = (o = "ok"),
                                    !.preAds = ads[u][g], !.postAds = ads'[u][g]]
  /\ UNCHANGED <<config, now, ticks, userRow, gifts, lastClaim, taskLevel, taskRows,
                 invites, taskGrants, inflight>>

\* case 'claim-task'
GiftsClaimTask(u, task) ==
  /\ rev = "gifts" /\ nreq < MaxReq
  /\ nreq' = nreq + 1
  /\ LET base == [NoResp EXCEPT !.op = "claim-task", !.u = u, !.g = task, !.at = now,
                                !.priorTasks = taskGrants[u][task],
                                !.preTask = Rewards(u), !.postTask = Rewards(u)]
     IN
     IF task = ""
     THEN /\ resp' = [base EXCEPT !.status = 400, !.msg = "Task required"]
          /\ UNCHANGED <<taskRows, taskGrants>>
     ELSE IF task = "bear"
     THEN \E o1 \in Outcomes :
            LET active == IF o1 = "ok" THEN invites[u] ELSE 0
                seen == [base EXCEPT !.reads = <<"stats">>, !.gotActive = active,
                                     !.seenActive = invites[u]]
            IN  IF TooFewInvites(active)
                THEN /\ resp' = [seen EXCEPT !.status = 400,
                                             !.msg = "Need 10 active invites"]
                     /\ UNCHANGED <<taskRows, taskGrants>>
                ELSE \E o2 \in Outcomes :
                       /\ taskRows' = IF o2 = "ok" THEN Bump(taskRows, u, "bear")
                                                   ELSE taskRows
                       /\ taskGrants' = IF o2 = "ok" THEN Bump(taskGrants, u, "bear")
                                                     ELSE taskGrants
                       /\ resp' = [seen EXCEPT !.status = 200,
                                               !.msg = "Task reward claimed",
                                               !.granted = (o2 = "ok"),
                                               !.writesOk = (o2 = "ok"),
                                               !.postTask =
                                                 <<taskLevel[u], taskRows'[u], gifts[u]>>]
     ELSE /\ resp' = [base EXCEPT !.status = 400, !.msg = "Unknown task"]
          /\ UNCHANGED <<taskRows, taskGrants>>
  /\ UNCHANGED <<config, now, ticks, userRow, ads, gifts, lastClaim, taskLevel,
                 invites, sinceClaim, inflight>>

GiftsHandler ==
  \/ \E u \in Users, d \in InitDatas, r \in Referrers : GiftsRegister(u, d, r)
  \/ \E u \in Users, g \in GiftKinds \cup {""}, d \in InitDatas : GiftsWatchAd(u, g, d)
  \/ GiftsClaim
  \/ \E u \in Users, t \in Tasks : GiftsClaimTask(u, t)

\* ===================== the users + ad_views handler (src/unnamed/part_001)
\* The rows of ad_views and of the claim counters are keyed by gift id; the ids
\* that occur are "1" and "2", kept in the store under the kinds they stand for
\* (TASK_TO_GIFT = { bear: 1 }).
GiftIds == {"1", "2"}
KindOf(giftId) == IF giftId = "1" THEN "bear" ELSE "heart"

\* TASK_TO_GIFT[taskId] || null, as a gift id ("" for none)
TASK_TO_GIFT(taskId) == IF taskId = "bear" THEN "1" ELSE ""

\* upsert('users', { id, last_claim_date: now }): one column for all gifts
StampUser(stamps, u, t) == [stamps EXCEPT ![u] = [g \in GiftKinds |-> <<t>>]]

\* case 'register'
UsersRegister(u, initData, refal) ==
  /\ rev = "users" /\ nreq < MaxReq
  /\ nreq' = nreq + 1
  /\ IF u = ""
     THEN /\ resp' = [NoResp EXCEPT !.op = "register", !.status = 400,
                                    !.msg = "userId required",
                                    !.genuine = Genuine(initData)]
          /\ UNCHANGED userRow
     ELSE \E o \in Outcomes :
            /\ userRow' = IF o = "ok" THEN [userRow EXCEPT ![u] = RegisterRow(now, refal)]
                                      ELSE userRow
            /\ resp' = [NoResp EXCEPT !.op = "register", !.u = u, !.at = now,
                                      !.status = 200, !.msg = "User registered",
                                      !.genuine = Genuine(initData),
                                      !.writesOk = (o = "ok"),
                                      !.preRow = userRow[u], !.postRow = userRow'[u]]
  /\ UNCHANGED <<config, now, ticks, ads, gifts, lastClaim, taskLevel, taskRows,
                 invites, sinceClaim, taskGrants, inflight>>

\* case 'watch-ad'
UsersWatchAd(u, giftId, initData) ==
  /\ rev = "users" /\ nreq < MaxReq
  /\ nreq' = nreq + 1
  /\ IF giftId = "" \/ u = ""
     THEN /\ resp' = [NoResp EXCEPT !.op = "watch-ad", !.u = u, !.status = 400,
                                    !.msg = "giftId and userId required",
                                    !.genuine = Genuine(initData)]
          /\ UNCHANGED <<ads, sinceClaim>>
     ELSE LET g == KindOf(giftId)
              base == [NoResp EXCEPT !.op = "watch-ad", !.u = u, !.g = g, !.at = now,
                                     !.genuine = Genuine(initData),
                                     !.preAds = ads[u][g], !.postAds = ads[u][g]]
          IN  \E up \in Outcomes :
                IF up = "fail"
                THEN /\ resp' = [base EXCEPT !.status = 500, !.writesOk = FALSE,
                                             !.msg = "Failed to record ad view"]
                     /\ UNCHANGED <<ads, sinceClaim>>
                ELSE \E adRes \in Outcomes :
                       /\ ads' = Bump(ads, u, g)
                       /\ sinceClaim' = Bump(sinceClaim, u, g)
                       /\ resp' = [base EXCEPT
                                     !.status = 200, !.msg = "Ad view recorded",
                                     !.reads = <<"views">>,
                                     !.gotViews = IF adRes = "ok" THEN ads'[u][g] ELSE 0,
                                     !.seenAds = ads'[u][g],
                                     !.postAds = ads'[u][g]]
  /\ UNCHANGED <<config, now, ticks, userRow, gifts, lastClaim, taskLevel, taskRows,
                 invites, taskGrants, inflight>>

\* case 'claim'
UsersClaim(u, giftId) ==
  /\ rev = "users" /\ nreq < MaxReq
  /\ nreq' = nreq + 1
  /\ IF giftId = "" \/ u = ""
     THEN /\ resp' = [NoResp EXCEPT !.op = "claim", !.u = u, !.status = 400,
                                    !.msg = "giftId and userId required"]
          /\ UNCHANGED <<gifts, lastClaim, sinceClaim>>
     ELSE LET g == KindOf(giftId) IN
          \E adRes \in Outcomes :
            LET views == IF adRes = "ok" THEN ads[u][g] ELSE 0
                base == [NoResp EXCEPT
                           !.op = "claim", !.u = u, !.g = g, !.at = now,
                           !.reads = <<"views">>, !.gotViews = views,
                           !.seenAds = ads[u][g], !.seenActive = invites[u],
                           !.seenLast = lastClaim[u][g],
                           !.seenCooling = Younger(lastClaim[u][g], now),
                           !.preAds = ads[u][g], !.postAds = ads[u][g],
                           !.preGifts = gifts[u][g], !.postGifts = gifts[u][g],
                           !.prevGrant = lastClaim[u][g], !.postLast = lastClaim[u][g],
                           !.newViews = sinceClaim[u][g]]
            IN  IF views < giftReqViews(giftId)
                THEN /\ resp' = [base EXCEPT !.status = 400, !.msg = "Need ad views",
                                             !.need = giftReqViews(giftId)]
                     /\ UNCHANGED <<gifts, lastClaim, sinceClaim>>
                ELSE \E up \in Outcomes :
                       IF up = "fail"
                       THEN /\ resp' = [base EXCEPT !.status = 500, !.writesOk = FALSE,
                                                    !.msg = "Failed to record claim"]
                            /\ UNCHANGED <<gifts, lastClaim, sinceClaim>>
                       ELSE \E o3 \in Outcomes :
                              /\ gifts' = Bump(gifts, u, g)
                              /\ sinceClaim' = [sinceClaim EXCEPT ![u][g] = 0]
                              /\ lastClaim' = IF o3 = "ok" THEN StampUser(lastClaim, u, now)
                                                           ELSE lastClaim
                              /\ resp' = [base EXCEPT
                                            !.status = 200, !.msg = "Gift claimed",
                                            !.granted = TRUE, !.writesOk = (o3 = "ok"),
                                            !.postGifts = gifts'[u][g],
                                            !.postLast = lastClaim'[u][g]]
  /\ UNCHANGED <<config, now, ticks, userRow, ads, taskLevel, taskRows, invites,
                 taskGrants, inflight>>

\* case 'claim-task'
UsersClaimTask(u, taskId) ==
  /\ rev = "users" /\ nreq < MaxReq
  /\ nreq' = nreq + 1
  /\ LET base == [NoResp EXCEPT !.op = "claim-task", !.u = u, !.g = taskId, !.at = now,
                                !.priorTasks = IF u = "" THEN 0 ELSE taskGrants[u][taskId],
                                !.preTask = IF u = "" THEN <<>> ELSE Rewards(u),
                                !.postTask = IF u = "" THEN <<>> ELSE Rewards(u)]
         giftMapped == TASK_TO_GIFT(taskId)
     IN
     IF taskId = "" \/ u = ""
     THEN /\ resp' = [base EXCEPT !.status = 400, !.msg = "taskId and userId required"]
          /\ UNCHANGED <<gifts, lastClaim, taskLevel, taskRows, taskGrants>>
     ELSE \E up \in Outcomes :
            IF up = "fail"
            THEN /\ resp' = [base EXCEPT !.status = 500, !.writesOk = FALSE,
                                         !.msg = "Failed to record task claim"]
                 /\ UNCHANGED <<gifts, lastClaim, taskLevel, taskRows, taskGrants>>
            ELSE \E o2, o3, o4 \in Outcomes :
                   LET level == IF o2 = "ok" THEN taskLevel[u] ELSE 0 IN
                   /\ IF giftMapped = ""
                      THEN /\ taskRows' = Bump(taskRows, u, taskId)
                           /\ UNCHANGED gifts
                      ELSE /\ gifts' = Bump(gifts, u, KindOf(giftMapped))
                           /\ UNCHANGED taskRows
                   /\ taskLevel' = IF taskId = "bear" /\ o3 = "ok"
                                   THEN [taskLevel EXCEPT ![u] = level + 1]
                                   ELSE taskLevel
                   /\ lastClaim' = IF o4 = "ok" THEN StampUser(lastClaim, u, now)
                                                ELSE lastClaim
                   /\ taskGrants' = Bump(taskGrants, u, taskId)
                   /\ resp' = [base EXCEPT
                                 !.status = 200, !.msg = "Task claimed",
                                 !.granted = TRUE,
                                 !.writesOk = (o4 = "ok" /\ (taskId = "bear" => o3 = "ok")),
                                 !.postTask = <<taskLevel'[u], taskRows'[u], gifts'[u]>>]
  /\ UNCHANGED <<config, now, ticks, userRow, ads, invites, sinceClaim, inflight>>

UsersHandler ==
  \/ \E u \in Users \cup {""}, d \in InitDatas, r \in Referrers : UsersRegister(u, d, r)
  \/ \E u \in Users \cup {""}, g \in GiftIds \cup {""}, d \in InitDatas :
       UsersWatchAd(u, g, d)
  \/ \E u \in Users \cup {""}, g \in GiftIds \cup {""} : UsersClaim(u, g)
  \/ \E u \in Users \cup {""}, t \in Tasks : UsersClaimTask(u, t)

\* ============== the telegram.log handler (src/api/index.js, second revision)
\* One row per user in telegram.log; its columns ads_<gift>, gifts_<gift> and
\* last_claim_at are kept in ads, gifts and lastClaim, and mean something only
\* while the row exists. An update whose value is the text
\* "telegram.log.<col> +/- 1" is taken to do that arithmetic when the store
\* answers OK (what the handler relies on); a store that refuses it answers
\* non-OK and changes nothing.

\* a handler that lets every session through
AnySession(initData) == TRUE

\* the negation of  !botToken || !(await verifyTelegramInitData(initData, botToken))
SessionValid(initData) == botToken # "" /\ verifyTelegramInitData(initData, botToken)

\* the filter user_id=eq.<userId> matches a row
HasRow(u) == u \in Users /\ userRow[u] # <<>>

\* a filter that lets every stored count through
AnyCount(u, g) == TRUE

\* the filter ads_<gift>=gt.0 of the watch-ad update
AdsLeft(u, g) == ads[u][g] > 0

\* the row POST /telegram.log inserts
InsertRow(t, refal) == <<[created_at |-> t, ref |-> refal]>>

VerdictOf(initData) == IF SessionValid(initData) THEN "pass" ELSE "fail"

Denied(op, u, g, initData) ==
  [NoResp EXCEPT !.op = op, !.u = u, !.g = g, !.at = now, !.status = 403,
                 !.msg = "Invalid Telegram Session (initData)",
                 !.genuine = Genuine(initData), !.verified = "fail"]

\* registerUser, and `status = res.ok ? 200 : 400`
TlogRegister(u, initData, refal) ==
  /\ rev = "tlog" /\ nreq < MaxReq
  /\ nreq' = nreq + 1
  /\ LET base == [NoResp EXCEPT !.op = "register", !.u = u, !.at = now,
                                !.genuine = Genuine(initData),
                                !.verified = VerdictOf(initData),
                                !.preRow = IF u = "" THEN <<>> ELSE userRow[u],
                                !.postRow = IF u = "" THEN <<>> ELSE userRow[u]]
     IN
     IF u = ""
     THEN /\ resp' = [base EXCEPT !.status = 400, !.msg = "userId required"]
          /\ UNCHANGED userRow
     ELSE \E checkOk \in Outcomes :
            IF checkOk = "ok" /\ HasRow(u)
            THEN /\ resp' = [base EXCEPT !.status = 200, !.msg = "User already exists",
                                         !.reads = <<"row">>]
                 /\ UNCHANGED userRow
            ELSE \E ok \in Outcomes :
                   \* a second row for the user id is refused (409)
                   IF ok = "fail" \/ HasRow(u)
                   THEN /\ resp' = [base EXCEPT !.status = 400, !.msg = "Insert failed",
                                                !.reads = <<"row">>, !.writesOk = FALSE]
                        /\ UNCHANGED userRow
                   ELSE /\ userRow' = [userRow EXCEPT ![u] = InsertRow(now, refal)]
                        /\ resp' = [base EXCEPT !.status = 200, !.msg = "",
                                                !.reads = <<"row">>,
                                                !.postRow = userRow'[u]]
  /\ UNCHANGED <<config, now, ticks, ads, gifts, lastClaim, taskLevel, taskRows,
                 invites, sinceClaim, taskGrants, inflight>>

\* watchAd, and `status = res.ok ? 200 : (res.status || 400)`
TlogWatchAd(u, g, initData) ==
  /\ rev = "tlog" /\ nreq < MaxReq
  /\ nreq' = nreq + 1
  /\ IF ~SessionValid(initData)
     THEN /\ resp' = Denied("watch-ad", u, g, initData)
          /\ UNCHANGED <<ads, sinceClaim>>
     ELSE IF g = "" \/ u = ""
     THEN /\ resp' = [NoResp EXCEPT !.op = "watch-ad", !.u = u, !.g = g, !.at = now,
                                    !.status = 400, !.msg = "Missing gift or userId",
                                    !.genuine = Genuine(initData), !.verified = "pass"]
          /\ UNCHANGED <<ads, sinceClaim>>
     ELSE LET base == [NoResp EXCEPT !.op = "watch-ad", !.u = u, !.g = g, !.at = now,
                                     !.genuine = Genuine(initData), !.verified = "pass",
                                     !.preAds = ads[u][g], !.postAds = ads[u][g]]
          IN  \E ok \in Outcomes :
                IF ok = "fail"
                THEN /\ resp' = [base EXCEPT !.status = 400, !.writesOk = FALSE,
                                             !.msg = "Ad count update failed"]
                     /\ UNCHANGED <<ads, sinceClaim>>
                ELSE IF HasRow(u) /\ AdsLeft(u, g)
                THEN /\ ads' = [ads EXCEPT ![u][g] = @ - 1]
                     /\ resp' = [base EXCEPT !.status = 200, !.postAds = ads'[u][g]]
                     /\ sinceClaim' = Bump(sinceClaim, u, g)
                ELSE /\ resp' = [base EXCEPT
                                   !.status = 200,
                                   !.msg = "Ad count already zero or user not found"]
                     /\ UNCHANGED <<ads, sinceClaim>>
  /\ UNCHANGED <<config, now, ticks, userRow, gifts, lastClaim, taskLevel, taskRows,
                 invites, taskGrants, inflight>>

\* the stored facts a grant would have to respect, as they stand at the request
TlogClaimBase(u, g, initData) ==
  [NoResp EXCEPT !.op = "claim", !.u = u, !.g = g, !.at = now,
                 !.genuine = Genuine(initData), !.verified = "pass",
                 !.seenAds = ads[u][g], !.seenActive = invites[u],
                 !.seenLast = lastClaim[u][g],
                 !.seenCooling = Younger(lastClaim[u][g], now),
                 !.preAds = ads[u][g], !.postAds = ads[u][g],
                 !.preGifts = gifts[u][g], !.postGifts = gifts[u][g],
                 !.prevGrant = lastClaim[u][g], !.postLast = lastClaim[u][g],
                 !.newViews = sinceClaim[u][g]]

\* claimGift, and `status = res.ok ? 200 : (res.status || 400)`
TlogClaimGift(u, g, initData) ==
  /\ rev = "tlog" /\ nreq < MaxReq
  /\ nreq' = nreq + 1
  /\ IF ~SessionValid(initData)
     THEN /\ resp' = Denied("claim", u, g, initData)
          /\ UNCHANGED <<ads, gifts, lastClaim, sinceClaim>>
     ELSE IF g = "" \/ u = ""
     THEN /\ resp' = [NoResp EXCEPT !.op = "claim", !.u = u, !.g = g, !.at = now,
                                    !.status = 400, !.msg = "Missing gift or userId",
                                    !.genuine = Genuine(initData), !.verified = "pass"]
          /\ UNCHANGED <<ads, gifts, lastClaim, sinceClaim>>
     ELSE LET base == TlogClaimBase(u, g, initData) IN
          \E updOk \in Outcomes :
            IF updOk = "fail"
            THEN /\ resp' = [base EXCEPT !.status = 400, !.msg = "Step 1 failed",
                                         !.writesOk = FALSE]
                 /\ UNCHANGED <<ads, gifts, lastClaim, sinceClaim>>
            ELSE \E incOk \in Outcomes :
                   /\ ads' = IF HasRow(u) THEN [ads EXCEPT ![u][g] = 0] ELSE ads
                   /\ lastClaim' = IF HasRow(u) THEN StampUser(lastClaim, u, now)
                                                ELSE lastClaim
                   /\ gifts' = IF HasRow(u) /\ incOk = "ok" THEN Bump(gifts, u, g)
                                                            ELSE gifts
                   /\ sinceClaim' = IF HasRow(u) /\ incOk = "ok"
                                    THEN [sinceClaim EXCEPT ![u][g] = 0] ELSE sinceClaim
                   /\ resp' = [base EXCEPT
                                 !.status = IF incOk = "ok" THEN 200 ELSE 400,
                                 !.msg = IF incOk = "ok" THEN "" ELSE "Step 2 failed",
                                 !.granted = (HasRow(u) /\ incOk = "ok"),
                                 !.writesOk = (incOk = "ok"),
                                 !.postAds = ads'[u][g], !.postGifts = gifts'[u][g],
                                 !.postLast = lastClaim'[u][g]]
  /\ UNCHANGED <<config, now, ticks, userRow, taskLevel, taskRows, invites,
                 taskGrants, inflight>>

\* claimTask, and `status = res.ok ? 200 : (res.status || 400)`
TlogClaimTask(u, task, initData) ==
  /\ rev = "tlog" /\ nreq < MaxReq
  /\ nreq' = nreq + 1
  /\ IF ~SessionValid(initData)
     THEN /\ resp' = Denied("claim-task", u, task, initData)
          /\ UNCHANGED <<gifts, taskGrants>>
     ELSE IF task # "bear" \/ u = ""
     THEN /\ resp' = [NoResp EXCEPT !.op = "claim-task", !.u = u, !.g = task, !.at = now,
                                    !.status = 400, !.msg = "Invalid task or userId",
                                    !.genuine = Genuine(initData), !.verified = "pass"]
          /\ UNCHANGED <<gifts, taskGrants>>
     ELSE LET base == [NoResp EXCEPT !.op = "claim-task", !.u = u, !.g = task,
                                     !.at = now, !.genuine = Genuine(initData),
                                     !.verified = "pass",
                                     !.priorTasks = taskGrants[u][task],
                                     !.preTask = Rewards(u), !.postTask = Rewards(u)]
          IN  \E ok \in Outcomes :
                IF ok = "fail"
                THEN /\ resp' = [base EXCEPT !.status = 400, !.msg = "Task claim failed",
                                             !.writesOk = FALSE]
                     /\ UNCHANGED <<gifts, taskGrants>>
                ELSE /\ gifts' = IF HasRow(u) THEN Bump(gifts, u, "bear") ELSE gifts
                     /\ taskGrants' = IF HasRow(u) THEN Bump(taskGrants, u, "bear")
                                                   ELSE taskGrants
                     /\ resp' = [base EXCEPT
                                   !.status = 200, !.granted = HasRow(u),
                                   !.postTask = <<taskLevel[u], taskRows[u], gifts'[u]>>]
  /\ UNCHANGED <<config, now, ticks, userRow, ads, lastClaim, taskLevel, taskRows,
                 invites, sinceClaim, inflight>>

TlogHandler ==
  \/ \E u \in Users \cup {""}, d \in InitDatas, r \in Referrers : TlogRegister(u, d, r)
  \/ \E u \in Users \cup {""}, g \in GiftKinds \cup {""}, d \in InitDatas :
       TlogWatchAd(u, g, d)
  \/ \E u \in Users \cup {""}, g \in GiftKinds \cup {""}, d \in InitDatas :
       TlogClaimGift(u, g, d)
  \/ \E u \in Users \cup {""}, t \in Tasks, d \in InitDatas : TlogClaimTask(u, t, d)

\* ========================= the telegram.log handler of src/unnamed/part_002
\* BOT_TOKEN is read once, when the module loads. Every handler failure is
\* answered 403 (`status = res.ok ? 200 : 403`), a failed registration 400.
\* A missing gift or user id is not looked for: the update then names no row.

\* registerUser
Tlog2Register(u, initData, refal) ==
  /\ rev = "tlog2" /\ nreq < MaxReq
  /\ nreq' = nreq + 1
  /\ LET base == [NoResp EXCEPT !.op = "register", !.u = u, !.at = now,
                                !.genuine = Genuine(initData),
                                !.verified = VerdictOf(initData),
                                !.preRow = IF u = "" THEN <<>> ELSE userRow[u],
                                !.postRow = IF u = "" THEN <<>> ELSE userRow[u]]
     IN
     IF u = ""
     THEN /\ resp' = [base EXCEPT !.status = 400, !.msg = "userId required"]
          /\ UNCHANGED userRow
     ELSE \E checkOk \in Outcomes :
            IF checkOk = "ok" /\ HasRow(u)
            THEN /\ resp' = [base EXCEPT !.status = 200, !.msg = "already exists",
                                         !.reads = <<"row">>]
                 /\ UNCHANGED userRow
            ELSE IF HasRow(u)
            THEN \* status === 409
                 /\ resp' = [base EXCEPT !.status = 200, !.msg = "already exists",
                                         !.reads = <<"row">>, !.writesOk = FALSE]
                 /\ UNCHANGED userRow
            ELSE \E ok \in Outcomes :
                   IF ok = "fail"
                   THEN /\ resp' = [base EXCEPT !.status = 400, !.msg = "insert failed",
                                                !.reads = <<"row">>, !.writesOk = FALSE]
                        /\ UNCHANGED userRow
                   ELSE /\ userRow' = [userRow EXCEPT ![u] = InsertRow(now, refal)]
                        /\ resp' = [base EXCEPT !.status = 200, !.msg = "",
                                                !.reads = <<"row">>,
                                                !.postRow = userRow'[u]]
  /\ UNCHANGED <<config, now, ticks, ads, gifts, lastClaim, taskLevel, taskRows,
                 invites, sinceClaim, taskGrants, inflight>>

\* the update names a row and a column that exist
Hits(u, g) == HasRow(u) /\ g \in GiftKinds

\* watchAd
Tlog2WatchAd(u, g, initData) ==
  /\ rev = "tlog2" /\ nreq < MaxReq
  /\ nreq' = nreq + 1
  /\ IF ~SessionValid(initData)
     THEN /\ resp' = Denied("watch-ad", u, g, initData)
          /\ UNCHANGED <<ads, sinceClaim>>
     ELSE LET had == IF Hits(u, g) THEN ads[u][g] ELSE 0
              base == [NoResp EXCEPT !.op = "watch-ad", !.u = u, !.g = g, !.at = now,
                                     !.genuine = Genuine(initData), !.verified = "pass",
                                     !.preAds = had, !.postAds = had]
          IN  \E ok \in Outcomes :
                IF ok = "fail"
                THEN /\ resp' = [base EXCEPT !.status = 403, !.writesOk = FALSE,
                                             !.msg = "ad count update failed"]
                     /\ UNCHANGED <<ads, sinceClaim>>
                ELSE IF Hits(u, g) /\ AdsLeft(u, g)
                THEN /\ ads' = [ads EXCEPT ![u][g] = @ - 1]
                     /\ sinceClaim' = Bump(sinceClaim, u, g)
                     /\ resp' = [base EXCEPT !.status = 200, !.postAds = ads'[u][g]]
                ELSE /\ resp' = [base EXCEPT !.status = 200]
                     /\ UNCHANGED <<ads, sinceClaim>>
  /\ UNCHANGED <<config, now, ticks, userRow, gifts, lastClaim, taskLevel, taskRows,
                 invites, taskGrants, inflight>>

\* claimGift
Tlog2ClaimGift(u, g, initData) ==
  /\ rev = "tlog2" /\ nreq < MaxReq
  /\ nreq' = nreq + 1
  /\ IF ~SessionValid(initData)
     THEN /\ resp' = Denied("claim", u, g, initData)
          /\ UNCHANGED <<ads, gifts, lastClaim, sinceClaim>>
     ELSE LET base == IF u \in Users /\ g \in GiftKinds
                      THEN TlogClaimBase(u, g, initData)
                      ELSE [NoResp EXCEPT !.op = "claim", !.u = u, !.g = g, !.at = now,
                                          !.genuine = Genuine(initData),
                                          !.verified = "pass"]
          IN
          \E updOk \in Outcomes :
            IF updOk = "fail"
            THEN /\ resp' = [base EXCEPT !.status = 403, !.msg = "update failed",
                                         !.writesOk = FALSE]
                 /\ UNCHANGED <<ads, gifts, lastClaim, sinceClaim>>
            ELSE \E incOk \in Outcomes :
                   /\ ads' = IF Hits(u, g) THEN [ads EXCEPT ![u][g] = 0] ELSE ads
                   /\ lastClaim' = IF HasRow(u) THEN StampUser(lastClaim, u, now)
                                                ELSE lastClaim
                   /\ gifts' = IF Hits(u, g) /\ incOk = "ok" THEN Bump(gifts, u, g)
                                                             ELSE gifts
                   /\ sinceClaim' = IF Hits(u, g) /\ incOk = "ok"
                                    THEN [sinceClaim EXCEPT ![u][g] = 0] ELSE sinceClaim
                   /\ resp' = IF u \in Users /\ g \in GiftKinds
                              THEN [base EXCEPT
                                      !.status = IF incOk = "ok" THEN 200 ELSE 403,
                                      !.msg = IF incOk = "ok" THEN "" ELSE "increment failed",
                                      !.granted = (HasRow(u) /\ incOk = "ok"),
                                      !.writesOk = (incOk = "ok"),
                                      !.postAds = ads'[u][g], !.postGifts = gifts'[u][g],
                                      !.postLast = lastClaim'[u][g]]
                              ELSE [base EXCEPT
                                      !.status = IF incOk = "ok" THEN 200 ELSE 403,
                                      !.msg = IF incOk = "ok" THEN "" ELSE "increment failed",
                                      !.writesOk = (incOk = "ok")]
  /\ UNCHANGED <<config, now, ticks, userRow, taskLevel, taskRows, invites,
                 taskGrants, inflight>>

\* claimTask: whatever the task, gifts_bear + 1
Tlog2ClaimTask(u, task, initData) ==
  /\ rev = "tlog2" /\ nreq < MaxReq
  /\ nreq' = nreq + 1
  /\ IF ~SessionValid(initData)
     THEN /\ resp' = Denied("claim-task", u, task, initData)
          /\ UNCHANGED <<gifts, taskGrants>>
     ELSE LET base == [NoResp EXCEPT
                         !.op = "claim-task", !.u = u, !.g = task,
                         !.at = now, !.genuine = Genuine(initData), !.verified = "pass",
                         !.priorTasks = IF u = "" THEN 0 ELSE taskGrants[u][task],
                         !.preTask = IF u = "" THEN <<>> ELSE Rewards(u),
                         !.postTask = IF u = "" THEN <<>> ELSE Rewards(u)]
          IN  \E ok \in Outcomes :
                IF ok = "fail"
                THEN /\ resp' = [base EXCEPT !.status = 403, !.msg = "task claim failed",
                                             !.writesOk = FALSE]
                     /\ UNCHANGED <<gifts, taskGrants>>
                ELSE /\ gifts' = IF HasRow(u) THEN Bump(gifts, u, "bear") ELSE gifts
                     /\ taskGrants' = IF HasRow(u) THEN Bump(taskGrants, u, task)
                                                   ELSE taskGrants
                     /\ resp' = [base EXCEPT
                                   !.status = 200, !.granted = HasRow(u),
                                   !.postTask = IF u = "" THEN <<>>
                                                ELSE <<taskLevel[u], taskRows[u], gifts'[u]>>]
  /\ UNCHANGED <<config, now, ticks, userRow, ads, lastClaim, taskLevel, taskRows,
                 invites, sinceClaim, inflight>>

Tlog2Handler ==
  \/ \E u \in Users \cup {""}, d \in InitDatas, r \in Referrers : Tlog2Register(u, d, r)
  \/ \E u \in Users \cup {""}, g \in GiftKinds \cup {""}, d \in InitDatas :
       Tlog2WatchAd(u, g, d)
  \/ \E u \in Users \cup {""}, g \in GiftKinds \cup {""}, d \in InitDatas :
       Tlog2ClaimGift(u, g, d)
  \/ \E u \in Users \cup {""}, t \in Tasks, d \in InitDatas : Tlog2ClaimTask(u, t, d)

Next ==
  \/ Tick
  \/ GiftsHandler
  \/ UsersHandler
  \/ TlogHandler
  \/ Tlog2Handler

Spec == Init /\ [][Next]_vars

\* the same system over a store whose calls all answer OK
InitReliable == Init /\ reliable
SpecReliable == InitReliable /\ [][Next]_vars

\* the deployment of the gifts-table handler alone
InitGifts == Init /\ rev = "gifts"
NextGifts ==
  \/ Tick
  \/ GiftsHandler
SpecGifts == InitGifts /\ [][NextGifts]_vars

\* the telegram.log handlers serving watch-ad and claim requests only
InitTlog == Init /\ rev \in {"tlog", "tlog2"}
NextTlogAds ==
  \/ Tick
  \/ \E u \in Users \cup {""}, g \in GiftKinds \cup {""}, d \in InitDatas :
       \/ TlogWatchAd(u, g, d)
       \/ TlogClaimGift(u, g, d)
       \/ Tlog2WatchAd(u, g, d)
       \/ Tlog2ClaimGift(u, g, d)
SpecTlogAds == InitTlog /\ [][NextTlogAds]_vars

\* the telegram.log handlers serving the three requests that verify initData
\* before they write, over a store that answers every call OK
NextTlogGate ==
  \/ NextTlogAds
  \/ \E u \in Users \cup {""}, t \in Tasks, d \in InitDatas :
       \/ TlogClaimTask(u, t, d)
       \/ Tlog2ClaimTask(u, t, d)
InitTlogGate == InitTlog /\ reliable
SpecTlogGate == InitTlogGate /\ [][NextTlogGate]_vars

\* ------------------------------------------- registerUser, step by step
\* registerUser over telegram.log as the two storage calls it makes, so that
\* two requests can overlap: the existence check (GET) ...
RegisterUserCheck(s, u) ==
  /\ rev \in {"tlog", "tlog2"} /\ nreq < MaxReq
  /\ inflight[s].pc = "idle"
  /\ \A s2 \in Slots : s2 < s => inflight[s2].pc # "idle"
  /\ nreq' = nreq + 1
  /\ \E checkOk \in Outcomes :
       IF checkOk = "ok" /\ HasRow(u)
       THEN /\ resp' = [NoResp EXCEPT !.op = "register", !.u = u, !.at = now,
                                      !.status = 200, !.msg = "User already exists",
                                      !.reads = <<"row">>,
                                      !.preRow = userRow[u], !.postRow = userRow[u]]
            /\ UNCHANGED inflight
       ELSE /\ inflight' = [inflight EXCEPT
                              ![s] = [Idle EXCEPT !.pc = "insert", !.u = u,
                                                  !.reads = <<"row">>]]
            /\ resp' = NoResp
  /\ UNCHANGED <<config, now, ticks, store, sinceClaim, taskGrants>>

\* ... and the insert (POST), which the table refuses with 409 when a row of
\* the user id exists: part_002 (96) answers that as success, index.js
\* (427) as a failure
RegisterUserInsert(s, refal) ==
  /\ inflight[s].pc = "insert"
  /\ LET u == inflight[s].u
         base == [NoResp EXCEPT !.op = "register", !.u = u, !.at = now,
                                !.reads = <<"row", "insert">>,
                                !.preRow = userRow[u], !.postRow = userRow[u]]
     IN  \E ok \in Outcomes :
           IF HasRow(u)
           THEN /\ resp' = IF rev = "tlog2"
                           THEN [base EXCEPT !.status = 200, !.msg = "already exists"]
                           ELSE [base EXCEPT !.status = 400, !.msg = "Insert failed",
                                             !.writesOk = FALSE]
                /\ UNCHANGED userRow
           ELSE IF ok = "fail"
           THEN /\ resp' = [base EXCEPT !.status = 400, !.msg = "Insert failed",
                                        !.writesOk = FALSE]
                /\ UNCHANGED userRow
           ELSE /\ userRow' = [userRow EXCEPT ![u] = InsertRow(now, refal)]
                /\ resp' = [base EXCEPT !.status = 200, !.postRow = userRow'[u]]
  /\ inflight' = [inflight EXCEPT ![s] = Idle]
  /\ UNCHANGED <<config, now, ticks, nreq, ads, gifts, lastClaim, taskLevel, taskRows,
                 invites, sinceClaim, taskGrants>>

NextRegister ==
  \/ Tick
  \/ \E s \in Slots, u \in Users : RegisterUserCheck(s, u)
  \/ \E s \in Slots, refal \in Referrers : RegisterUserInsert(s, refal)
SpecRegister == InitTlogGate /\ [][NextRegister]_vars

\* ------------------------------- claim-task of part_001, step by step
\* case 'claim-task' for task bear as its storage calls, so that two requests
\* can overlap: the rpc that records the claim and the read of
\* bear_task_level ...
UsersClaimTaskRead(s, u) ==
  /\ rev = "users" /\ nreq < MaxReq
  /\ inflight[s].pc = "idle"
  /\ \A s2 \in Slots : s2 < s => inflight[s2].pc # "idle"
  /\ nreq' = nreq + 1
  /\ \E up \in Outcomes :
       IF up = "fail"
       THEN /\ resp' = [NoResp EXCEPT !.op = "claim-task", !.u = u, !.g = "bear",
                                      !.at = now, !.status = 500, !.writesOk = FALSE,
                                      !.msg = "Failed to record task claim"]
            /\ UNCHANGED <<gifts, inflight>>
       ELSE \E o2 \in Outcomes :
              /\ gifts' = Bump(gifts, u, KindOf(TASK_TO_GIFT("bear")))
              /\ inflight' = [inflight EXCEPT
                                ![s] = [pc |-> "writeLevel", u |-> u,
                                        level |-> IF o2 = "ok" THEN taskLevel[u] ELSE 0]]
              /\ resp' = NoResp
  /\ UNCHANGED <<config, now, ticks, userRow, ads, lastClaim, taskLevel, taskRows,
                 invites, sinceClaim, taskGrants>>

\* ... and the upsert of level + 1, the upsert of last_claim_date, and the
\* answer
UsersClaimTaskWrite(s) ==
  /\ rev = "users" /\ inflight[s].pc = "writeLevel"
  /\ LET u == inflight[s].u
         level == inflight[s].level + 1
     IN  \E o3, o4 \in Outcomes :
           /\ taskLevel' = IF o3 = "ok" THEN [taskLevel EXCEPT ![u] = level]
                                        ELSE taskLevel
           /\ lastClaim' = IF o4 = "ok" THEN StampUser(lastClaim, u, now) ELSE lastClaim
           /\ taskGrants' = Bump(taskGrants, u, "bear")
           /\ resp' = [NoResp EXCEPT !.op = "claim-task", !.u = u, !.g = "bear",
                                     !.at = now, !.status = 200, !.msg = "Task claimed",
                                     !.granted = TRUE,
                                     !.writesOk = (o3 = "ok" /\ o4 = "ok"),
                                     !.priorTasks = taskGrants[u]["bear"]]
  /\ inflight' = [inflight EXCEPT ![s] = Idle]
  /\ UNCHANGED <<config, now, ticks, nreq, userRow, ads, gifts, taskRows, invites,
                 sinceClaim>>

InitUsers == Init /\ reliable /\ rev = "users"
NextTaskLevel ==
  \/ Tick
  \/ \E s \in Slots, u \in Users : UsersClaimTaskRead(s, u)
  \/ \E s \in Slots : UsersClaimTaskWrite(s)
SpecTaskLevel == InitUsers /\ [][NextTaskLevel]_vars

\* ================================================== checks on drawn inputs
\* The handlers' pure steps, applied to inputs drawn from small sets: the
\* stored state is left alone and resp holds what the step computed.
ProbeKinds == {"bear", "heart", "box", "rose", "star"}
ProbeGiftIds == {"1", "2", "3", "4", "7", "bear", "heart", "box", "rose"}
ProbeViews == {0, 199, 200, 201, 249, 250, 349, 350, 351}

\* the gift kind a gift id of the users + ad_views handler stands for: the ids
\* of giftReqViewsMap in the order of the kinds (TASK_TO_GIFT has bear: 1), a
\* kind's own name where the request passes the name as id
GiftOfId(giftId) ==
  CASE giftId = "1" -> "bear" [] giftId = "2" -> "heart" [] giftId = "3" -> "box"
    [] giftId = "4" -> "rose" [] giftId = "7" -> "star" [] OTHER -> giftId

\* part_000, case 'claim': `required` and `views < required` for views read
GiftsViewsCheck(gift, views) ==
  /\ rev = "gifts"
  /\ resp' = [op |-> "views-check", kind |-> gift, views |-> views,
              passed |-> ~TooFewViews(views, gift),
              need |-> required(gift),
              \* the number in `Need ${required} ad views`
              reported |-> required(gift)]
  /\ UNCHANGED <<config, now, ticks, nreq, store, sinceClaim, taskGrants, inflight>>

\* part_001, case 'claim': giftReqViews and `views < giftReqViews`
UsersViewsCheck(giftId, views) ==
  /\ rev = "users"
  /\ resp' = [op |-> "views-check", kind |-> GiftOfId(giftId), views |-> views,
              passed |-> ~(views < giftReqViews(giftId)),
              need |-> giftReqViews(giftId),
              \* the number in `Need ${giftReqViews} ad views` (beside current: views)
              reported |-> giftReqViews(giftId)]
  /\ UNCHANGED <<config, now, ticks, nreq, store, sinceClaim, taskGrants, inflight>>

InitViews == Init /\ reliable /\ rev \in {"gifts", "users"}
NextViews ==
  \/ \E g \in ProbeKinds, v \in ProbeViews : GiftsViewsCheck(g, v)
  \/ \E g \in ProbeGiftIds, v \in ProbeViews : UsersViewsCheck(g, v)
SpecViews == InitViews /\ [][NextViews]_vars


\* ------------------------------------------------------------ invite-stats
MaxInvited == 2        \* how many referred users, and how large a stored count

\* is_active of a referred user as the store returns it: the column missing
\* from the row, null, a boolean, or a string
IsActiveValues == {"undefined", "null", "bool:true", "bool:false", "str:t", "str:true"}
\* created_at of a referred user: <<>> for none, else <<hour>> (150 lies ahead
\* of every clock value)
CreatedAts == {<<>>, <<0>>, <<-35>>, <<150>>}
ReferredRows == [is_active : IsActiveValues, created_at : CreatedAts]
ReferredSets == UNION {[1..n -> ReferredRows] : n \in 0..MaxInvited}

Abs(x) == IF x < 0 THEN -x ELSE x
\* Math.round(Math.abs((now - created) / (24*60*60*1000))), the clock in hours
diffDays(t, created) == (Abs(t - created) + 12) \div 24

\* what the forEach of the invite-stats case adds to `active` for one row
CountsAsActive(row, t) ==
  IF row.is_active # "undefined"
  THEN row.is_active \in {"bool:true", "str:t", "str:true"}
  ELSE row.created_at # <<>> /\ diffDays(t, row.created_at[1]) >= 2

RECURSIVE ActiveOf(_, _)
ActiveOf(rows, t) ==
  IF rows = <<>> THEN 0
  ELSE (IF CountsAsActive(Head(rows), t) THEN 1 ELSE 0) + ActiveOf(Tail(rows), t)

StatsResp(u, status, msg, total, active, pending) ==
  [op |-> "invite-stats", u |-> u, status |-> status, msg |-> msg,
   total |-> total, active |-> active, pending |-> pending]

\* part_001, case 'invite-stats', at hour t, the store holding `rows` with
\* ref_by = u and answering the read with o
inviteStats(u, rows, o, t) ==
  IF u = "" THEN StatsResp(u, 400, "userId required", 0, 0, 0)
  ELSE IF o = "ok"
  THEN LET total == Len(rows)
           active == ActiveOf(rows, t)
       IN  StatsResp(u, 200, "", total, active, total - active)
  ELSE StatsResp(u, 200, "", 0, 0, 0)

UsersInviteStats(u, rows) ==
  /\ rev = "users"
  /\ \E o \in Outcomes : resp' = inviteStats(u, rows, o, now)
  /\ UNCHANGED <<config, now, ticks, nreq, store, sinceClaim, taskGrants, inflight>>

\* the same request for a referrer with one referred user, the answer kept
\* with the row it was computed from and the hour
UsersInviteStatsOfOne(u, row) ==
  /\ rev = "users"
  /\ \E o \in Outcomes :
       resp' = [op |-> "invite-stats-of-one", row |-> row, at |-> now, read |-> o,
                stats |-> inviteStats(u, <<row>>, o, now)]
  /\ UNCHANGED <<config, now, ticks, nreq, store, sinceClaim, taskGrants, inflight>>

\* a stored count column: <<>> for null, else <<n>>
CountColumns == {<<>>} \cup {<<n>> : n \in 0..MaxInvited}
\* `column || 0`
OrZero(c) == IF c = <<>> THEN 0 ELSE c[1]
\* what the select returns: no row, or the user's row with its three columns
StatsRows ==
  {<<>>} \cup {<<r>> : r \in [invites_total : CountColumns, invites_active : CountColumns,
                              invites_pending : CountColumns]}

\* getInviteStats, the select answering `data`
getInviteStats(u, data, o) ==
  IF o # "ok" \/ data = <<>> THEN StatsResp(u, 200, "", 0, 0, 0)
  ELSE LET row == data[1]
       IN  StatsResp(u, 200, "", OrZero(row.invites_total), OrZero(row.invites_active),
                     OrZero(row.invites_pending))

\* index.js, case 'invite-stats'
TlogInviteStats(u, data) ==
  /\ rev = "tlog"
  /\ \E o \in Outcomes :
       resp' = IF u = "" THEN StatsResp(u, 200, "", 0, 0, 0)
               ELSE getInviteStats(u, data, o)
  /\ UNCHANGED <<config, now, ticks, nreq, store, sinceClaim, taskGrants, inflight>>

\* part_002, case 'invite-stats' (no test of userId before the select)
Tlog2InviteStats(u, data) ==
  /\ rev = "tlog2"
  /\ \E o \in Outcomes : resp' = getInviteStats(u, data, o)
  /\ UNCHANGED <<config, now, ticks, nreq, store, sinceClaim, taskGrants, inflight>>

InitStats == Init /\ rev \in {"users", "tlog", "tlog2"}
NextStats ==
  \/ Tick
  \/ \E u \in Users \cup {""}, rows \in ReferredSets : UsersInviteStats(u, rows)
  \/ \E u \in Users \cup {""}, data \in StatsRows : TlogInviteStats(u, data)
  \/ \E u \in Users \cup {""}, data \in StatsRows : Tlog2InviteStats(u, data)
SpecStats == InitStats /\ [][NextStats]_vars

NextStatsOfOne ==
  \/ Tick
  \/ \E u \in Users, row \in ReferredRows : UsersInviteStatsOfOne(u, row)
SpecStatsOfOne == InitUsers /\ [][NextStatsOfOne]_vars


\* ------------------------------------------------------- initData verifiers
ProbeTokens == {"", BotTokenValue, OtherToken}
DupFields == <<Pair("user", "u1"), Pair("auth_date", "t0"), Pair("user", "u2")>>
\* the entries of a query string listing the pairs of fields in any order
Orderings(fields) ==
  LET n == Len(fields)
  IN  {[i \in 1..n |-> fields[p[i]]] :
         p \in {q \in [1..n -> 1..n] : \A i, j \in 1..n : i # j => q[i] # q[j]}}
ProbeFieldLists == {<<>>} \cup Orderings(TheFields) \cup Orderings(DupFields)

\* a hex string written with capital digits
UpperCase(h) ==
  HexString(h.digest,
            [i \in 1..Len(h.digits) |->
               [j \in 1..Len(h.digits[i]) |->
                  CASE h.digits[i][j] = "a" -> "A" [] h.digits[i][j] = "b" -> "B"
                    [] h.digits[i][j] = "c" -> "C" [] h.digits[i][j] = "d" -> "D"
                    [] h.digits[i][j] = "e" -> "E" [] h.digits[i][j] = "f" -> "F"
                    [] OTHER -> h.digits[i][j]]])

\* the hash fields a payload with these pairs may carry: none, an empty one,
\* the signature of a signer that holds some token and lists the pairs in some
\* order, that signature in capitals, and one with key and message of the
\* secret exchanged
ProbeHashes(fields) ==
  {<<>>, <<EmptyString>>}
    \cup {<<HmacHex(tok, s)>> : tok \in ProbeTokens, s \in Orderings(fields)}
    \cup {<<UpperCase(HmacHex(BotTokenValue, s))>> : s \in Orderings(fields)}
    \cup {<<digestHex(HmacSha256(HmacSha256(BotTokenValue, "WebAppData"), s))>> :
            s \in Orderings(fields)}
ProbeInitDatas == UNION {{InitData(f, h) : h \in ProbeHashes(f)} : f \in ProbeFieldLists}

\* what a verifier answers: "sync" the synchronous one, else the asynchronous
\* one where the crypto is `verifier`
Verdict(verifier, initData, token) ==
  IF verifier = "sync" THEN verifySync(initData, token)
  ELSE verifyAsync(initData, token, verifier)

VerifyResp(verifier, initData, token) ==
  [op |-> "verify", verifier |-> verifier, initData |-> initData, token |-> token,
   result |-> Verdict(verifier, initData, token)]

\* part_002: verifyTelegramInitData(initData, token), called once
Tlog2Verify(initData, token) ==
  /\ rev = "tlog2" /\ resp = NoResp
  /\ resp' = VerifyResp("sync", initData, token)
  /\ UNCHANGED <<config, now, ticks, nreq, store, sinceClaim, taskGrants, inflight>>

\* index.js: await verifyTelegramInitData(initData, token), called once
TlogVerify(initData, token, env) ==
  /\ rev = "tlog" /\ resp = NoResp
  /\ resp' = VerifyResp(env, initData, token)
  /\ UNCHANGED <<config, now, ticks, nreq, store, sinceClaim, taskGrants, inflight>>

InitVerify == Init /\ reliable /\ rev \in {"tlog", "tlog2"}
NextVerify ==
  \/ \E d \in ProbeInitDatas, tok \in ProbeTokens : Tlog2Verify(d, tok)
  \/ \E d \in ProbeInitDatas, tok \in ProbeTokens, env \in CryptoEnvs : TlogVerify(d, tok, env)
SpecVerify == InitVerify /\ [][NextVerify]_vars


\* ------------------------------------------------------ unsupported type
\* the `type` of a request no case of the switch names ("" = no type at all)
OtherTypes == {"", "get-config"}

\* the answer to such a request: what was asked, the status, the one key of
\* the body with its text in pieces, and the storage calls issued
RoutingResp(type, status, key, text) ==
  [op |-> "unknown-type", type |-> type, status |-> status, key |-> key,
   text |-> text, reads |-> <<>>, writes |-> <<>>]

\* part_000, default case
GiftsUnknownType(type) ==
  /\ rev = "gifts"
  /\ resp' = RoutingResp(type, 400, "message", <<"Unknown type">>)
  /\ UNCHANGED <<config, now, ticks, nreq, store, sinceClaim, taskGrants, inflight>>

\* part_001, default case
UsersUnknownType(type) ==
  /\ rev = "users"
  /\ resp' = RoutingResp(type, 400, "message", <<"Unknown type">>)
  /\ UNCHANGED <<config, now, ticks, nreq, store, sinceClaim, taskGrants, inflight>>

\* fetch of index.js and of part_002: `if (!requestType)`, then the default case
TlogUnknownType(type) ==
  /\ rev \in {"tlog", "tlog2"}
  /\ resp' = IF type = ""
             THEN RoutingResp(type, 400, "error", <<"Missing request type in body">>)
             ELSE RoutingResp(type, 404, "error", <<"Unknown request type: ", type>>)
  /\ UNCHANGED <<config, now, ticks, nreq, store, sinceClaim, taskGrants, inflight>>

\* the method of a request that is not a POST
OtherMethods == {"GET", "PUT", "DELETE", "OPTIONS"}

\* a handler with no case for the CORS preflight
NoPreflight(method) == FALSE

\* `method === 'OPTIONS'`, the CORS preflight of fetch in index.js
IsPreflight(method) == method = "OPTIONS"

\* part_000 and part_001: `if (req.method !== 'POST')`, first thing (part_001
\* with its Supabase variables set)
HandlerOtherMethod(method) ==
  /\ rev \in {"gifts", "users"}
  /\ resp' = [op |-> "other-method", method |-> method, status |-> 405,
              key |-> "message", text |-> <<"Method Not Allowed">>,
              reads |-> <<>>, writes |-> <<>>]
  /\ UNCHANGED <<config, now, ticks, nreq, store, sinceClaim, taskGrants, inflight>>

\* fetch of index.js (the preflight, then `method !== 'POST'`) and of part_002
\* (`method !== 'POST'` only)
FetchOtherMethod(method) ==
  /\ rev \in {"tlog", "tlog2"}
  /\ resp' = IF rev = "tlog" /\ IsPreflight(method)
             THEN [op |-> "other-method", method |-> method, status |-> 204,
                   key |-> "", text |-> <<>>, reads |-> <<>>, writes |-> <<>>]
             ELSE [op |-> "other-method", method |-> method, status |-> 405,
                   key |-> "error", text |-> <<"Method not allowed">>,
                   reads |-> <<>>, writes |-> <<>>]
  /\ UNCHANGED <<config, now, ticks, nreq, store, sinceClaim, taskGrants, inflight>>

NextRouting ==
  \/ Tick
  \/ \E type \in OtherTypes : GiftsUnknownType(type)
  \/ \E type \in OtherTypes : UsersUnknownType(type)
  \/ \E type \in OtherTypes : TlogUnknownType(type)
  \/ \E method \in OtherMethods : HandlerOtherMethod(method)
  \/ \E method \in OtherMethods : FetchOtherMethod(method)
SpecRouting == Init /\ [][NextRouting]_vars


\* ------------------------------------------------------------ thrown errors
\* an error some step of a request throws (the fetch of a storage call
\* rejecting, request.json() failing inside the try)
ThrownErrors == {[name |-> "TypeError", message |-> "fetch failed"],
                 [name |-> "Error", message |-> "connect ECONNRESET 10.0.0.1"]}

\* what the request is answered with then: whether the handler answers at
\* all, the status, and the body as keys with their values in pieces
ThrownResp(err, answered, status, body) ==
  [op |-> "thrown", err |-> err, answered |-> answered, status |-> status, body |-> body]

\* the catch of the handler of part_000 (372-375) and of part_001 (282-285)
HandlerThrow(err) ==
  /\ rev \in {"gifts", "users"}
  /\ resp' = IF rev = "gifts"
             THEN ThrownResp(err, TRUE, 500,
                             <<[key |-> "message", value |-> <<"Server error">>]>>)
             ELSE ThrownResp(err, TRUE, 500,
                             <<[key |-> "message", value |-> <<"Server error">>],
                               \* String(err)
                               [key |-> "error", value |-> <<err.name, ": ", err.message>>]>>)
  /\ UNCHANGED <<config, now, ticks, nreq, store, sinceClaim, taskGrants, inflight>>

\* the catch of the Deno handler of part_000 (181-187), which is deployed on
\* its own and is none of the revisions
ServeThrow(err) ==
  /\ resp' = ThrownResp(err, TRUE, 500,
                        <<[key |-> "ok", value |-> <<"false">>],
                          [key |-> "error", value |-> <<err.message>>]>>)
  /\ UNCHANGED <<config, now, ticks, nreq, store, sinceClaim, taskGrants, inflight>>

\* fetch of index.js catches around the switch (613-616); fetch of part_002
\* has no catch, the error leaves fetch and the handler sends nothing
FetchThrow(err) ==
  /\ rev \in {"tlog", "tlog2"}
  /\ resp' = IF rev = "tlog"
             THEN ThrownResp(err, TRUE, 500,
                             <<[key |-> "ok", value |-> <<"false">>],
                               [key |-> "error", value |-> <<"Internal server error">>]>>)
             ELSE ThrownResp(err, FALSE, 0, <<>>)
  /\ UNCHANGED <<config, now, ticks, nreq, store, sinceClaim, taskGrants, inflight>>

NextThrow ==
  \/ \E err \in ThrownErrors : HandlerThrow(err)
  \/ \E err \in ThrownErrors : ServeThrow(err)
  \/ \E err \in ThrownErrors : FetchThrow(err)
SpecThrow == Init /\ [][NextThrow]_vars


\* ------------------------------------------------ configuration from env
\* the variables a process or a request's env may hold ("" = unset): the bot
\* token and the Supabase URL (the anon key travels with the URL)
EnvValues == [BOT_TOKEN : {"", BotTokenValue, OtherToken}, SUPABASE_URL : {"", "https://db"}]

\* what a fetch ran with: process.env when the module was loaded, the env of
\* the request, and the values verification and supabaseRequest then read
EnvResp(loaded, env, token, url) ==
  [op |-> "fetch-env", loaded |-> loaded, env |-> env, botToken |-> token, url |-> url]

\* index.js 548-557: fetch copies every variable env holds into process.env,
\* and the helpers read process.env when they are called (346-347, 452)
TlogFetchEnv(loaded, env) ==
  /\ rev = "tlog"
  /\ LET processEnv == [k \in DOMAIN loaded |-> IF env[k] # "" THEN env[k] ELSE loaded[k]]
     IN  resp' = EnvResp(loaded, env, processEnv.BOT_TOKEN, processEnv.SUPABASE_URL)
  /\ UNCHANGED <<config, now, ticks, nreq, store, sinceClaim, taskGrants, inflight>>

\* part_002 10-12 and 207-214 (index.js 11-14 and 199-207 alike): the module
\* constants are set from process.env at load; fetch writes env into
\* process.env when the constant SUPABASE_URL is unset; the helpers read the
\* constants
Tlog2FetchEnv(loaded, env) ==
  /\ rev = "tlog2"
  /\ LET SUPABASE_URL == loaded.SUPABASE_URL
         BOT_TOKEN == loaded.BOT_TOKEN
     IN  resp' = EnvResp(loaded, env, BOT_TOKEN, SUPABASE_URL)
  /\ UNCHANGED <<config, now, ticks, nreq, store, sinceClaim, taskGrants, inflight>>

NextEnv ==
  \/ \E loaded \in EnvValues, env \in EnvValues : TlogFetchEnv(loaded, env)
  \/ \E loaded \in EnvValues, env \in EnvValues : Tlog2FetchEnv(loaded, env)
SpecEnv == InitTlog /\ [][NextEnv]_vars

\* ================================================================ claims
\* C1: whatever the handler, a claim request writes a durable grant only if,
\* in the store as it stood when the request read it, the ad-view count of
\* (user, gift) meets the gift's threshold, the user has at least 10 active
\* invites, and no claim of (user, gift) is younger than 48 hours.
C1_GrantOnlyWhenEligible ==
  (resp.op = "claim" /\ resp.granted) =>
    /\ resp.seenAds >= required(resp.g)
    /\ resp.seenActive >= 10
    /\ ~resp.seenCooling

\* C2: in the gifts-table handler, under every interleaving of claim requests,
\* a claim record of (user, gift) is never written while the record it follows
\* is younger than 48 hours.
C2_NoTwoClaimsWithin48h ==
  (rev = "gifts" /\ resp.op = "claim" /\ resp.granted /\ resp.prevGrant # <<>>) =>
    resp.postLast[1] - resp.prevGrant[1] >= 48

\* C3: the gifts-table handler's claim evaluates cooldown, then ad views, then
\* invites, and stops at the first failure: the answer is the rejection of the
\* earliest failing check, with the message of that check alone, status 400,
\* and no storage read of a later check; only a request passing all three is
\* answered "Claimed".
C3_ChecksInOrder ==
  (rev = "gifts" /\ resp.op = "claim" /\ resp.msg # "Gift required") =>
    LET cooling == resp.gotCooling
        fewViews == resp.gotViews < required(resp.g)
        fewInvites == resp.gotActive < 10
    IN  /\ cooling =>
             /\ resp.status = 400 /\ resp.msg = "Wait 48h between claims"
             /\ resp.reads = <<"last">>
        /\ (~cooling /\ fewViews) =>
             /\ resp.status = 400 /\ resp.msg = "Need ad views"
             /\ resp.need = required(resp.g)
             /\ resp.reads = <<"last", "views">>
        /\ (~cooling /\ ~fewViews /\ fewInvites) =>
             /\ resp.status = 400 /\ resp.msg = "Need 10 active invites"
             /\ resp.reads = <<"last", "views", "stats">>
        /\ (~cooling /\ ~fewViews /\ ~fewInvites) =>
             /\ resp.status = 200 /\ resp.msg = "Claimed"
             /\ resp.reads = <<"last", "views", "stats">>

\* a request that fails the ad-view check and would fail the invite check too
\* is turned away for its ad views, the invite statistics never read
C3_Witness ==
  /\ rev = "gifts" /\ resp.op = "claim"
  /\ resp.msg = "Need ad views" /\ resp.status = 400
  /\ resp.gotViews < required(resp.g)
  /\ invites[resp.u] < 10
  /\ resp.reads = <<"last", "views">>

\* C4: after a successful gift claim at time t the ad-view counter of
\* (user, gift) is 0, the last-claim timestamp is t, and the granted-gift
\* counter is one more than before.
C4_ClaimResetsAndCounts ==
  (resp.op = "claim" /\ resp.status = 200) =>
    /\ resp.postAds = 0
    /\ resp.postLast = <<resp.at>>
    /\ resp.postGifts = resp.preGifts + 1

\* C5: in the gifts-table handler, once (user, gift) has been claimed, a later
\* claim of it is rejected until the full threshold of ad views has been
\* recorded anew; in particular a claim made 48 hours or more after the
\* previous one with fewer new ad views than the threshold is not granted.
C5_ClaimedThenLocked ==
  (rev = "gifts" /\ resp.op = "claim" /\ resp.prevGrant # <<>>
     /\ resp.at - resp.prevGrant[1] >= 48
     /\ resp.newViews < required(resp.g)) =>
    resp.msg # "Claimed"

\* C6: a claim-task request for a (user, task) that was granted before is
\* rejected and raises no gift counter or task level again.
C6_TaskClaimedOnce ==
  (resp.op = "claim-task" /\ resp.priorTasks >= 1) =>
    /\ resp.status # 200
    /\ ~resp.granted
    /\ resp.postTask = resp.preTask

\* C7: a well-formed register request for a user id that is already registered
\* succeeds and leaves the stored record, its timestamp and referrer, as it was.
C7_RegisterIdempotent ==
  (rev \in {"gifts", "users", "tlog"} /\ resp.op = "register" /\ resp.u # ""
     /\ resp.genuine /\ resp.preRow # <<>>) =>
    /\ resp.status = 200
    /\ resp.postRow = resp.preRow

\* C8: the gifts-table handler answers "Claimed", "Ad view recorded" or
\* "User registered" only when every storage write of the request succeeded.
C8_SuccessMeansWritten ==
  (rev = "gifts" /\ resp.msg \in {"Claimed", "Ad view recorded", "User registered"}) =>
    resp.writesOk

\* C9: a register request whose initData is missing or does not verify is
\* answered 401 and creates or changes no user record.
C9_RegisterNeedsInitData ==
  (rev \in {"gifts", "tlog", "tlog2"} /\ resp.op = "register" /\ resp.u # ""
     /\ ~resp.genuine) =>
    /\ resp.status = 401
    /\ resp.postRow = resp.preRow

\* C10: no watch-ad request lowers the ad-view counter of (user, gift), and a
\* request whose initData was not verified, or failed verification, leaves it
\* as it was.
C10_AdViewsOnlyUpWhenVerified ==
  (rev \in {"gifts", "users", "tlog"} /\ resp.op = "watch-ad") =>
    /\ resp.postAds >= resp.preAds
    /\ (resp.verified # "pass" => resp.postAds = resp.preAds)

\* C11: under the telegram.log handlers every ad-view counter stays
\* non-negative, and a watch-ad on a counter that is 0 leaves it at 0.
C11_AdsNeverNegative ==
  rev \in {"tlog", "tlog2"} =>
    /\ \A u \in Users, g \in GiftKinds : ads[u][g] >= 0
    /\ (resp.op = "watch-ad" /\ resp.preAds = 0) => resp.postAds = 0

\* a verified watch-ad answered 200 on a stored row whose counter a claim
\* has brought to 0
C11_Witness ==
  /\ rev \in {"tlog", "tlog2"}
  /\ resp.op = "watch-ad" /\ resp.status = 200 /\ resp.verified = "pass"
  /\ resp.u \in Users /\ resp.g \in GiftKinds
  /\ userRow[resp.u] # <<>>
  /\ resp.preAds = 0 /\ ads[resp.u][resp.g] = 0

\* C12: the claim's ad-view check of part_000 and part_001 requires 200 views
\* for bear, 250 for heart, 350 for box, 350 for rose and 200 for any other
\* kind, and passes iff the views read are at least that many.
C12_ThresholdTable ==
  resp.op = "views-check" =>
    LET table == CASE resp.kind = "bear" -> 200 [] resp.kind = "heart" -> 250
                   [] resp.kind = "box" -> 350 [] resp.kind = "rose" -> 350
                   [] OTHER -> 200
    IN  /\ resp.need = table
        /\ resp.passed <=> resp.views >= table

\* C13: a claim rejected for insufficient ad views reports the deficit, the
\* required count minus the views read (1 for 199 views against 200), and a
\* claim with exactly the required count passes the ad-view check.
C13_RejectionReportsDeficit ==
  resp.op = "views-check" =>
    /\ ~resp.passed => resp.reported = resp.need - resp.views
    /\ resp.views = resp.need => resp.passed

C15_InviteGate ==
  /\ []((rev = "gifts" /\ resp.op \in {"claim", "claim-task"} /\ resp.reads # <<>>
             /\ resp.reads[Len(resp.reads)] = "stats") =>
            /\ resp.gotActive < 10 <=>
                 (resp.status = 400 /\ resp.msg = "Need 10 active invites")
            /\ resp.gotActive >= 10 => (resp.status = 200 /\ resp.writesOk = resp.granted)
            /\ reliable => resp.gotActive = invites[resp.u])
  /\ [][(rev = "gifts" /\ resp'.msg = "Need 10 active invites") =>
          UNCHANGED <<store, sinceClaim, taskGrants>>]_vars

\* a gift claim with enough ad views and 9 active invites is turned away
C15_Witness ==
  /\ rev = "gifts" /\ resp.op = "claim"
  /\ resp.msg = "Need 10 active invites" /\ resp.status = 400
  /\ resp.gotActive = 9 /\ invites[resp.u] = 9
  /\ resp.gotViews >= required(resp.g)

\* C16: every invite-stats response that carries the three numbers has
\* active + pending = total, whatever referred users or row the store holds.
C16_StatsAddUp ==
  (resp.op = "invite-stats" /\ resp.status = 200) =>
    resp.active + resp.pending = resp.total

\* what C17 says the verifier answers for a payload and a token: the payload
\* has a hash field, and it is the lowercase hex of the HMAC-SHA256, under the
\* key HMAC-SHA256("WebAppData", token), of the pairs in key order (pairs with
\* one key in the order of the payload)
ExpectedVerdict(initData, token) ==
  LET f == initData.fields
      n == Len(f)
      p == CHOOSE q \in [1..n -> 1..n] :
             \A i, j \in 1..n :
               i < j => \/ KeyRank(f[q[i]].k) < KeyRank(f[q[j]].k)
                        \/ KeyRank(f[q[i]].k) = KeyRank(f[q[j]].k) /\ q[i] < q[j]
      checkString == [i \in 1..n |-> f[p[i]]]
      secret == [key |-> "WebAppData", msg |-> token]
      lowercaseHex == <<<<"0", "0">>, <<"0", "a">>, <<"a", "b">>, <<"f", "f">>>>
  IN  /\ initData.hash # <<>>
      /\ Head(initData.hash) = [digest |-> [key |-> secret, msg |-> checkString],
                                digits |-> lowercaseHex]

C18_OrderIndependent ==
  (resp.op = "verify" /\ resp.verifier \in {"sync", "node", "web"}) =>
    \A f \in Orderings(resp.initData.fields) :
      Verdict(resp.verifier, InitData(f, resp.initData.hash), resp.token) = resp.result

\* C19: a watch-ad, claim or claim-task request served with no BOT_TOKEN
\* configured is not answered as a pass, and its status and error value are
\* not those of a request whose initData fails verification against a
\* configured token.
C19_MissingTokenDistinct ==
  (rev \in {"tlog", "tlog2"} /\ botToken = ""
     /\ resp.op \in {"watch-ad", "claim", "claim-task"}) =>
    /\ resp.status # 200 /\ ~resp.granted
    /\ \A d \in InitDatas :
         ~verifyTelegramInitData(d, BotTokenValue) =>
           <<resp.status, resp.msg>> #
             <<Denied(resp.op, resp.u, resp.g, d).status, Denied(resp.op, resp.u, resp.g, d).msg>>

\* C20: a request whose type is none of the supported operations is answered
\* with status 400 and the body {message: "Unknown type"}, and no storage call
\* is made for it.
C20_UnknownType ==
  (resp.op = "unknown-type" /\ resp.type # "") =>
    /\ resp.status = 400
    /\ resp.key = "message" /\ resp.text = <<"Unknown type">>
    /\ resp.reads = <<>> /\ resp.writes = <<>>

C22_GenericServerError ==
  resp.op = "thrown" =>
    /\ resp.answered /\ resp.status = 500
    /\ \A i \in 1..Len(resp.body) :
         \A j \in 1..Len(resp.body[i].value) : resp.body[i].value[j] # resp.err.message

\* C23: when claimGift over telegram.log answers a failure, the user's row is
\* as it was before the request: the ad-view counter is not reset and
\* last_claim_at is not set while the gift counter stays.
C23_ClaimAllOrNothing ==
  (rev \in {"tlog", "tlog2"} /\ resp.op = "claim" /\ resp.status # 200) =>
    /\ resp.postAds = resp.preAds
    /\ resp.postLast = resp.prevGrant
    /\ resp.postGifts = resp.preGifts

\* C24: in the gifts handler a claim is answered 'Claimed' only when each of
\* its three reads returned what the store held: a read that failed, and so
\* returned no last claim, no views or no active invites in place of the
\* stored value, never leads to a grant.
C24_FailedReadNeverGrants ==
  (rev = "gifts" /\ resp.op = "claim" /\ resp.msg = "Claimed") =>
    /\ resp.gotCooling = resp.seenCooling
    /\ resp.gotViews = resp.seenAds
    /\ resp.gotActive = resp.seenActive

\* C25: watchAd, claimGift and claimTask over telegram.log write nothing for a
\* request unless BOT_TOKEN is configured and the request's initData verifies
\* against it; every other request is answered 403 and leaves the store as it
\* was, also when gift or userId is missing.
C25_NoWriteUnlessVerified ==
  /\ []((rev \in {"tlog", "tlog2"} /\ resp.op \in {"watch-ad", "claim", "claim-task"}
           /\ ~(botToken # "" /\ resp.genuine)) =>
          (resp.status = 403 /\ ~resp.granted /\ resp.verified = "fail"))
  /\ [][(rev \in {"tlog", "tlog2"} /\ resp'.op \in {"watch-ad", "claim", "claim-task"}
           /\ ~(botToken # "" /\ resp'.genuine)) =>
          UNCHANGED <<store, sinceClaim, taskGrants>>]_vars

\* a forged payload with no userId, turned away with 403
C25_Witness ==
  /\ rev = "tlog" /\ botToken # "" /\ resp.op = "claim-task"
  /\ ~resp.genuine /\ resp.u = "" /\ resp.status = 403

\* C26: when the env of a request carries BOT_TOKEN and the Supabase
\* credentials, the handlers run for that request read those values, also
\* when the variables were unset when the module was loaded.
C26_EnvReachesHandlers ==
  (resp.op = "fetch-env" /\ resp.env.BOT_TOKEN # "" /\ resp.env.SUPABASE_URL # "") =>
    (resp.botToken = resp.env.BOT_TOKEN /\ resp.url = resp.env.SUPABASE_URL)

\* C27: of two register requests for one unregistered user that overlap (both
\* existence checks before either insert), the one that inserts second, and
\* finds the row the first has written, is answered with success like the
\* first, and one row exists.
C27_ConcurrentRegistersSucceed ==
  (rev \in {"tlog", "tlog2"} /\ resp.op = "register"
     /\ resp.reads = <<"row", "insert">> /\ resp.preRow # <<>>) =>
    (resp.status = 200 /\ userRow[resp.u] = resp.preRow)

\* C28: in the users + ad_views handler, with a store that answers every call
\* OK, bear_task_level is its initial value (0) plus the number of claim-task
\* requests for bear answered 'Task claimed' so far, however the requests
\* overlap.
C28_LevelCountsClaims ==
  rev = "users" => \A u \in Users : taskLevel[u] = taskGrants[u]["bear"]

\* C29: a claim-task request that names a task other than bear (and, over
\* telegram.log, comes with a valid session) is answered 400 and records
\* nothing: no reward counter changes and no grant is written.
C29_UnknownTaskRejected ==
  (rev \in {"gifts", "users", "tlog"} /\ resp.op = "claim-task" /\ resp.u # ""
     /\ resp.g \in TaskNames \ {"bear"} /\ (rev = "tlog" => resp.verified = "pass")) =>
    (resp.status = 400 /\ ~resp.granted /\ resp.postTask = resp.preTask)

\* C30: in invite-stats of part_001 a referred user with no is_active value
\* and a created_at counts as active exactly when created_at lies at least 48
\* hours back: not at 47 hours, and never when it lies ahead.
C30_ActiveFromTwoDays ==
  (resp.op = "invite-stats-of-one" /\ resp.read = "ok"
     /\ resp.row.is_active = "undefined" /\ resp.row.created_at # <<>>) =>
    (resp.stats.active = 1 <=> resp.at - resp.row.created_at[1] >= 48)

====
